---- MODULE Spec2Model ----
(***************************************************************************)
(* Model of validation/harness.py: discovery of fixture directories, the   *)
(* per-fixture build/execute/assert cycle driven by unittest, and the      *)
(* aggregation of suite results into the process exit status.              *)
(*                                                                         *)
(* A directory name is a sequence of one-character strings, a path is a    *)
(* sequence of names relative to the script directory (<<>> is the script  *)
(* directory itself).  File contents and captured output are sequences of  *)
(* one-character strings.                                                  *)
(***************************************************************************)
EXTENDS Integers, Sequences, FiniteSets, TLC

\* ------------------------------------------------------------------ bounds
MaxDirs == 3        \* directories below the script directory
MaxDepth == 2       \* nesting depth of the directory tree
MaxRuns == 2        \* successive runs of the harness (SpecTwice)

\* ------------------------------------------------------- names and the tree
Digits == {"0", "1", "2", "3", "4", "5", "6", "7", "8", "9"}

\* Characters that are numeric for str.isnumeric() without being decimal
\* digits; "sup2" stands for the one character U+00B2 (superscript two).
OtherNumeric == {"sup2"}

N001 == <<"0", "0", "1">>
N002 == <<"0", "0", "2">>
N12 == <<"1", "2">>
Nsrc == <<"s", "r", "c">>

N0a1 == <<"0", "a", "1">>
Nsup == <<"sup2", "0", "1", "-", "x">>

\* The names a directory can have: in the trees that are walked only
\* (DirNames), in the trees whose fixtures are run as well (RunNames), and
\* in the trees the harness is run on more than once (TwiceNames).
DirNames == {N001, N002, N12, N0a1, Nsup, Nsrc}
RunNames == {N001, N002, Nsrc}
TwiceNames == {N001, N002}

Min(a, b) == IF a < b THEN a ELSE b

\* All paths of length 1..n over names.
RECURSIVE PathsUpTo(_, _)
PathsUpTo(names, n) ==
    IF n = 0 THEN {}
    ELSE LET shorter == PathsUpTo(names, n - 1)
         IN  shorter \cup {<<d>> : d \in names}
                     \cup {Append(p, d) : p \in shorter, d \in names}

Parent(p) == SubSeq(p, 1, Len(p) - 1)

\* All directory trees with exactly n directories: every directory's parent
\* is the script directory or another directory of the tree.
RECURSIVE TreesOfSize(_, _)
TreesOfSize(names, n) ==
    IF n = 0 THEN {{}}
    ELSE UNION {{t \cup {p} : p \in {q \in PathsUpTo(names, MaxDepth) \ t :
                                          Len(q) = 1 \/ Parent(q) \in t}} :
                t \in TreesOfSize(names, n - 1)}

Trees(names) == UNION {TreesOfSize(names, n) : n \in 0..MaxDirs}

\* The sub-directory names of directory root in tree t.
SubDirs(t, root) == {p[Len(p)] : p \in {q \in t : Len(q) > 0 /\ Parent(q) = root}}

\* The orders in which a directory listing can return the names of S.
Listings(S) ==
    {s \in [1..Cardinality(S) -> S] : \A i, j \in 1..Cardinality(S) : i # j => s[i] # s[j]}

\* ---------------------------------------------------------------- discovery
\* dir[0:3]
Slice3(name) == SubSeq(name, 1, Min(3, Len(name)))

\* str.isnumeric(): at least one character, all of them numeric.
IsNumeric(s) == s # <<>> /\ \A i \in 1..Len(s) : s[i] \in Digits \cup OtherNumeric

IsTestDir(dir) == IsNumeric(Slice3(dir))

HasRoot(tests, root) == \E i \in 1..Len(tests) : tests[i].root = root

\* tests[root] = [dir]: the entry is replaced, not extended.
AddTestOverwrite(tests, root, dir) ==
    LET t1 == IF HasRoot(tests, root) THEN tests
              ELSE Append(tests, [root |-> root, dirs |-> <<>>])
    IN  [i \in 1..Len(t1) |->
            IF t1[i].root = root THEN [t1[i] EXCEPT !.dirs = <<dir>>] ELSE t1[i]]

\* tests[root].append(dir), creating the entry (at the end: dicts keep
\* insertion order) when root is not yet a key.
AddTest(tests, root, dir) ==
    LET t1 == IF HasRoot(tests, root) THEN tests
              ELSE Append(tests, [root |-> root, dirs |-> <<>>])
    IN  [i \in 1..Len(t1) |->
            IF t1[i].root = root THEN [t1[i] EXCEPT !.dirs = Append(@, dir)] ELSE t1[i]]

\* The inner loop of the walk: for dir in dirs.
RECURSIVE ScanDirs(_, _, _)
ScanDirs(tests, root, dirs) ==
    IF dirs = <<>> THEN tests
    ELSE ScanDirs(IF IsTestDir(Head(dirs)) THEN AddTest(tests, root, Head(dirs)) ELSE tests,
                  root, Tail(dirs))

RootName == <<"r", "o", "o", "t">>

\* os.path.relpath(root, script_directory), with "." replaced by "root".
SuiteName(root) == IF root = <<>> THEN <<RootName>> ELSE root

\* The second loop of discover_suites: one suite per key of tests, one test
\* case per directory of that key, both in insertion order.
MakeSuites(tests) ==
    [i \in 1..Len(tests) |->
        [name |-> SuiteName(tests[i].root),
         tests |-> [j \in 1..Len(tests[i].dirs) |-> Append(tests[i].root, tests[i].dirs[j])]]]

\* ------------------------------------------------------------ text handling
CR == "CR"
LF == "LF"
Whitespace == {" ", "TAB", CR, LF}

\* Reading in text mode (open(..., "r"), subprocess.run(..., text=True)):
\* universal newlines, "\r\n" and a lone "\r" are both read as "\n".
RECURSIVE UniversalNewlines(_)
UniversalNewlines(s) ==
    IF s = <<>> THEN <<>>
    ELSE IF Head(s) = CR
         THEN IF Len(s) >= 2 /\ s[2] = LF
              THEN <<LF>> \o UniversalNewlines(SubSeq(s, 3, Len(s)))
              ELSE <<LF>> \o UniversalNewlines(Tail(s))
         ELSE <<Head(s)>> \o UniversalNewlines(Tail(s))

RECURSIVE LStrip(_)
LStrip(s) == IF s # <<>> /\ Head(s) \in Whitespace THEN LStrip(Tail(s)) ELSE s

RECURSIVE RStrip(_)
RStrip(s) ==
    IF s # <<>> /\ s[Len(s)] \in Whitespace THEN RStrip(SubSeq(s, 1, Len(s) - 1)) ELSE s

DigitValue(c) ==
    CHOOSE n \in 0..9 : <<"0", "1", "2", "3", "4", "5", "6", "7", "8", "9">>[n + 1] = c

RECURSIVE DecimalValue(_)
DecimalValue(s) ==
    IF s = <<>> THEN 0 ELSE 10 * DecimalValue(SubSeq(s, 1, Len(s) - 1)) + DigitValue(s[Len(s)])

\* int(text): surrounding whitespace is dropped, one sign is allowed, the
\* rest must be one or more decimal digits; anything else is a ValueError.
IntParse(text) ==
    LET t == RStrip(LStrip(text))
        signed == t # <<>> /\ Head(t) \in {"+", "-"}
        body == IF signed THEN Tail(t) ELSE t
        ok == body # <<>> /\ \A i \in 1..Len(body) : body[i] \in Digits
    IN  [ok |-> ok,
         value |-> IF ~ok THEN 0
                   ELSE IF signed /\ Head(t) = "-" THEN 0 - DecimalValue(body)
                   ELSE DecimalValue(body)]

\* ---------------------------------------------------------- the environment
\* A file of a fixture directory: absent, or present with raw content.
Absent == [exists |-> FALSE, data |-> <<>>]
File(data) == [exists |-> TRUE, data |-> data]

\* What the fixtures and the tools can be like.  These are the sets the
\* environment's facts are drawn from.
FullInputs ==
    [mktemp    |-> {0, 1},
     cc        |-> {0, 1},
     llc       |-> {0, 1},
     clang     |-> {0, 1},
     rcs       |-> {0, 1},
     outs      |-> {<<>>, <<"4", "2">>, <<"4", "2", LF>>, <<"4", "2", CR, LF>>},
     exitFiles |-> {Absent, File(<<"1", LF>>), File(<<"x">>)},
     outFiles  |-> {Absent, File(<<"4", "2", LF>>), File(<<"4", "2", CR, LF>>)}]

SmallInputs ==
    [mktemp    |-> {0, 1},
     cc        |-> {0, 1},
     llc       |-> {0},
     clang     |-> {0},
     rcs       |-> {0, 1},
     outs      |-> {<<>>},
     exitFiles |-> {Absent},
     outFiles  |-> {Absent}]

\* Nothing is known yet about a fixture: each field is <<>> until the harness
\* observes it, and <<v>> from then on.
Unknown ==
    [mktemp |-> <<>>, cc |-> <<>>, llc |-> <<>>, clang |-> <<>>,
     rc |-> <<>>, out |-> <<>>, exitFile |-> <<>>, outFile |-> <<>>]

\* v is a possible observation of a fact: the fact is still open or it is v.
Known(fact, v) == fact = <<>> \/ fact = <<v>>

\* -------------------------------------------------------------------- state
VARIABLES
    tree,         \* the directories below the script directory (never written)
    inputs,       \* the sets the environment's facts are drawn from
    lastRun,      \* how many times the harness is started
    env,          \* what has been observed of each fixture and its tools
    disk,         \* scratch directory -> the artifacts in it
    run,          \* number of the current run
    pc,           \* where the harness is
    stack,        \* os.walk: directories still to be listed
    tests,        \* discover_suites: root -> test dirs, in insertion order
    test_suites,  \* the discovered suites
    si,           \* index of the suite being run
    ti,           \* index of the test being run within its suite
    success,      \* run: the accumulated flag
    tests_result, \* unittest's result object of the suite being run
    result,       \* the outcome unittest recorded for each test
    tempdir,      \* self.tempdir of the test being run
    cur,          \* the test being run: tools invoked, assertions, outcome
    started,      \* the fixtures the compiler was invoked for
    attempts,     \* how many times each fixture's setUp was called
    toolUsed,     \* some external tool was invoked in this run
    exitStatus,   \* argument of sys.exit (<<>> while running)
    prev          \* result and exitStatus of the previous run

envVars == <<tree, inputs, lastRun>>
vars == <<tree, inputs, lastRun, env, disk, run, pc, stack, tests, test_suites, si, ti,
          success, tests_result, result, tempdir, cur, started, attempts, toolUsed, exitStatus, prev>>

\* The scratch directories the disk has room for.
ScratchNames == {"tmp.A", "tmp.B"}

\* self.tempdir of a test case whose setUp has not set it.
NoDir == ""

\* The directories that discovery turns into fixtures.
Fixtures == {p \in tree : IsTestDir(p[Len(p)])}

\* A disk without scratch directories.
EmptyDisk == [dirs |-> {}, files |-> {}]

\* A unittest result object nothing was added to.
NoResult == [failures |-> 0, errors |-> 0]

NoTest == [log |-> <<>>, asserted |-> {}, reasons |-> {}, attached |-> {},
           outcome |-> "none"]

\* success = False
InitialFailure == FALSE

\* success = True
InitialSuccess == TRUE

\* success = ok, the flag of the last suite alone.
AssignOnly(flag, ok) == ok

\* success &= ok
AndAssign(flag, ok) == flag /\ ok

\* A runner that stops the suite at the first test that does not pass.
NextTestFailFast(i, outcome) == IF outcome = "pass" THEN i + 1 ELSE i + MaxDirs + 1

\* The index of the test a suite runs after test i ended with outcome: the
\* next one, whatever the outcome (the runner does not stop at a failure).
NextTest(i, outcome) == i + 1

\* The state of a freshly started harness process.
Fresh ==
    /\ run = 1
    /\ pc = "walk"
    /\ stack = << <<>> >>
    /\ tests = <<>>
    /\ test_suites = <<>>
    /\ si = 0
    /\ ti = 0
    /\ success = InitialSuccess
    /\ tests_result = NoResult
    /\ result = [p \in tree |-> "none"]
    /\ tempdir = NoDir
    /\ cur = NoTest
    /\ started = {}
    /\ attempts = [p \in tree |-> 0]
    /\ toolUsed = FALSE
    /\ exitStatus = <<>>
    /\ prev = <<>>

Init ==
    /\ tree \in Trees(RunNames)
    /\ inputs = FullInputs
    /\ lastRun = 1
    /\ env = [p \in tree |-> Unknown]
    /\ disk = EmptyDisk
    /\ Fresh

\* --------------------------------------------------------- discover_suites
\* One iteration of "for root, dirs, files in os.walk(script_directory)":
\* the directory is listed, in whatever order the file system returns its
\* entries, its numeric-prefixed sub-directories are added to tests, and the
\* walk goes on into every sub-directory, in listing order, before it
\* returns to the directories still pending.
WalkStep ==
    /\ pc = "walk"
    /\ stack # <<>>
    /\ LET root == Head(stack)
       IN  \E dirs \in Listings(SubDirs(tree, root)) :
              /\ tests' = ScanDirs(tests, root, dirs)
              /\ stack' = [i \in 1..Len(dirs) |-> Append(root, dirs[i])] \o Tail(stack)
    /\ UNCHANGED <<envVars, env, disk, run, pc, test_suites, si, ti, success, tests_result,
                   result, tempdir, cur, started, attempts, toolUsed, exitStatus, prev>>

\* The walk is over: the suites are built and run() enters its loop.
DiscoverReturn ==
    /\ pc = "walk"
    /\ stack = <<>>
    /\ test_suites' = MakeSuites(tests)
    /\ success' = InitialSuccess
    /\ si' = 1
    /\ ti' = 1
    /\ pc' = "suite"
    /\ UNCHANGED <<envVars, env, disk, run, stack, tests, tests_result, result, tempdir, cur,
                   started, attempts, toolUsed, exitStatus, prev>>

\* ----------------------------------------------------------- the test case
Suite == test_suites[si]
Test == Suite.tests[ti]

\* What is known of the fixtures is kept for the runs to come; in the last
\* run nothing can observe a finished fixture again, and it is dropped.
Forget(e, f) == IF run = lastRun THEN [e EXCEPT ![f] = Unknown] ELSE e

\* A result object that counts failed assertions only.
AddOutcomeFailuresOnly(r, outcome) ==
    IF outcome = "fail" THEN [r EXCEPT !.failures = @ + 1] ELSE r

\* unittest records an exception of a test: AssertionError as a failure,
\* any other exception as an error ("setup-error": raised by setUp,
\* "build-error": raised by build, "error": raised elsewhere in runTest).
AddOutcome(r, outcome) ==
    IF outcome = "fail" THEN [r EXCEPT !.failures = @ + 1]
    ELSE IF outcome \in {"error", "build-error", "setup-error"} THEN [r EXCEPT !.errors = @ + 1]
    ELSE r

\* TestResult.wasSuccessful()
WasSuccessful(r) == r.failures = 0 /\ r.errors = 0

\* The scratch directories mktemp can still create.
FreeScratch(d) == ScratchNames \ d.dirs

\* The name mktemp -d gives the new directory: one that no existing directory
\* has.  The harness only hands the name on, so which of the free names it is
\* makes no difference, and the model takes one of them.
Mktemp(d) == CHOOSE name \in FreeScratch(d) : TRUE

\* mktemp -d: a new, empty directory.
MakeDir(d, name) == [d EXCEPT !.dirs = @ \cup {name}]

\* rm -rf that leaves the directory behind.
RemoveDirLeak(d, name) == d

\* rm -rf dir
RemoveDir(d, name) ==
    [dirs |-> d.dirs \ {name}, files |-> {a \in d.files : a.dir # name}]

\* A tool writes file into directory dir; from is the fixture whose source the
\* content derives from.
WriteFile(d, dir, file, from) ==
    [d EXCEPT !.files = {a \in @ : ~(a.dir = dir /\ a.file = file)}
                          \cup {[dir |-> dir, file |-> file, from |-> from]}]

\* The fixtures whose source the file named file in dir derives from (none
\* when there is no such file).
ReadFile(d, dir, file) == {a.from : a \in {b \in d.files : b.dir = dir /\ b.file = file}}

Invoke(c, tool) == [c EXCEPT !.log = Append(@, tool)]

Raise(c, outcome, reason) == [c EXCEPT !.outcome = outcome, !.reasons = @ \cup {reason}]

\* The tools whose output the harness captures: only the compiler is run with
\* stdout=subprocess.PIPE, stderr=subprocess.STDOUT; llc and clang are run
\* without either and write to the streams of the harness itself.
Captured(tool) == tool = "cc"

\* raise Exception("Failed to compile test program", self.test_file, ...):
\* the output of the failing tool is an argument of the exception only when
\* it was captured.
BuildError(c, tool, reason) ==
    [Raise(c, "build-error", reason) EXCEPT
        !.attached = IF Captured(tool) THEN {tool} ELSE {}]

\* for suite in test_suites: the next suite is handed to the runner.
SuiteBegin ==
    /\ pc = "suite"
    /\ si <= Len(test_suites)
    /\ tests_result' = NoResult
    /\ ti' = 1
    /\ pc' = "test"
    /\ UNCHANGED <<envVars, env, disk, run, stack, tests, test_suites, si, success, result,
                   tempdir, cur, started, attempts, toolUsed, exitStatus, prev>>

\* setUp, mktemp exits 0: the test gets its scratch directory.
SetUpOk ==
    /\ pc = "test"
    /\ ti <= Len(Suite.tests)
    /\ Known(env[Test].mktemp, 0)
    /\ 0 \in inputs.mktemp
    /\ FreeScratch(disk) # {}
    /\ disk' = MakeDir(disk, Mktemp(disk))
    /\ tempdir' = Mktemp(disk)
    /\ env' = [env EXCEPT ![Test].mktemp = <<0>>]
    /\ cur' = Invoke(NoTest, "mktemp")
    /\ attempts' = [attempts EXCEPT ![Test] = @ + 1]
    /\ toolUsed' = TRUE
    /\ pc' = "translate"
    /\ UNCHANGED <<envVars, run, stack, tests, test_suites, si, ti, success, tests_result,
                   result, started, exitStatus, prev>>

\* setUp, mktemp exits non-zero (by itself, or because the disk has no room):
\* setUp raises, unittest records the error and calls neither runTest nor
\* tearDown, and the suite goes on with its next test.
SetUpFail ==
    /\ pc = "test"
    /\ ti <= Len(Suite.tests)
    /\ \E code \in inputs.mktemp :
          /\ Known(env[Test].mktemp, code)
          /\ code # 0 \/ FreeScratch(disk) = {}
          /\ env' = Forget([env EXCEPT ![Test].mktemp = <<code>>], Test)
    /\ result' = [result EXCEPT ![Test] = "setup-error"]
    /\ tests_result' = AddOutcome(tests_result, "setup-error")
    /\ attempts' = [attempts EXCEPT ![Test] = @ + 1]
    /\ toolUsed' = TRUE
    /\ cur' = NoTest
    /\ ti' = NextTest(ti, "setup-error")
    /\ UNCHANGED <<envVars, disk, run, pc, stack, tests, test_suites, si, success, tempdir,
                   started, exitStatus, prev>>

\* A build that does not look at the return code of a stage.
StageFailedNever(code) == FALSE

\* if <stage>_result.returncode != 0: raise
StageFailed(code) == code # 0

\* build, first stage: the compiler under test translates main.c of the
\* test directory into program.ll of the scratch directory.
Translate ==
    /\ pc = "translate"
    /\ \E code \in inputs.cc :
          /\ Known(env[Test].cc, code)
          /\ env' = [env EXCEPT ![Test].cc = <<code>>]
          /\ IF StageFailed(code)
             THEN /\ cur' = BuildError(Invoke(cur, "cc"), "cc", "translate")
                  /\ pc' = "teardown"
                  /\ disk' = disk
             ELSE /\ cur' = Invoke(cur, "cc")
                  /\ pc' = "codegen"
                  /\ disk' = WriteFile(disk, tempdir, "program.ll", Test)
    /\ started' = started \cup {Test}
    /\ UNCHANGED <<envVars, run, stack, tests, test_suites, si, ti, success, tests_result,
                   result, tempdir, attempts, toolUsed, exitStatus, prev>>

\* build, second stage: llc turns program.ll into program.o.
Codegen ==
    /\ pc = "codegen"
    /\ \E from \in ReadFile(disk, tempdir, "program.ll"), code \in inputs.llc :
          /\ Known(env[from].llc, code)
          /\ env' = [env EXCEPT ![from].llc = <<code>>]
          /\ IF StageFailed(code)
             THEN /\ cur' = BuildError(Invoke(cur, "llc"), "llc", "codegen")
                  /\ pc' = "teardown"
                  /\ disk' = disk
             ELSE /\ cur' = Invoke(cur, "llc")
                  /\ pc' = "link"
                  /\ disk' = WriteFile(disk, tempdir, "program.o", from)
    /\ UNCHANGED <<envVars, run, stack, tests, test_suites, si, ti, success, tests_result,
                   result, tempdir, started, attempts, toolUsed, exitStatus, prev>>

\* build, third stage: clang links program.o into the executable program.
Link ==
    /\ pc = "link"
    /\ \E from \in ReadFile(disk, tempdir, "program.o"), code \in inputs.clang :
          /\ Known(env[from].clang, code)
          /\ env' = [env EXCEPT ![from].clang = <<code>>]
          /\ IF StageFailed(code)
             THEN /\ cur' = BuildError(Invoke(cur, "clang"), "clang", "link")
                  /\ pc' = "teardown"
                  /\ disk' = disk
             ELSE /\ cur' = Invoke(cur, "clang")
                  /\ pc' = "execute"
                  /\ disk' = WriteFile(disk, tempdir, "program", from)
    /\ UNCHANGED <<envVars, run, stack, tests, test_suites, si, ti, success, tests_result,
                   result, tempdir, started, attempts, toolUsed, exitStatus, prev>>

\* expected_exit_code() that takes a file without an integer for a 0.
ExpectedExitCodeLenient(file) ==
    IF ~file.exists THEN [ok |-> TRUE, value |-> 0]
    ELSE [ok |-> TRUE, value |-> IntParse(UniversalNewlines(file.data)).value]

\* expected_exit_code() on the content of exit.expected
ExpectedExitCode(file) ==
    IF ~file.exists THEN [ok |-> TRUE, value |-> 0]
    ELSE IntParse(UniversalNewlines(file.data))

\* expected_stdout() that trims the expectation.
ExpectedStdoutStripped(file) ==
    IF ~file.exists THEN <<>> ELSE RStrip(LStrip(UniversalNewlines(file.data)))

\* expected_stdout() on the content of stdout.expected
ExpectedStdout(file) == IF ~file.exists THEN <<>> ELSE UniversalNewlines(file.data)

\* A runTest that evaluates both assertions before it reports.
JudgeBoth(rc, out, exitFile, outFile) ==
    LET stdout == UniversalNewlines(out)
        expected == ExpectedExitCode(exitFile)
        reasons == (IF rc # expected.value THEN {"exit-code"} ELSE {})
                      \cup (IF stdout # ExpectedStdout(outFile) THEN {"stdout"} ELSE {})
    IN  IF ~expected.ok
        THEN [asserted |-> {}, outcome |-> "error", reasons |-> {"exit-parse"}]
        ELSE [asserted |-> {"exit-code", "stdout"},
              outcome |-> IF reasons = {} THEN "pass" ELSE "fail",
              reasons |-> reasons]

\* The two assertions of runTest on a program that exited with rc and wrote
\* out, for a fixture with the expectation files exitFile and outFile: the
\* assertions evaluated, and how the test ends (an exception ends runTest).
Judge(rc, out, exitFile, outFile) ==
    LET stdout == UniversalNewlines(out)
        expected == ExpectedExitCode(exitFile)
    IN  IF ~expected.ok
        THEN [asserted |-> {}, outcome |-> "error", reasons |-> {"exit-parse"}]
        ELSE IF rc # expected.value
        THEN [asserted |-> {"exit-code"}, outcome |-> "fail", reasons |-> {"exit-code"}]
        ELSE IF stdout # ExpectedStdout(outFile)
        THEN [asserted |-> {"exit-code", "stdout"}, outcome |-> "fail",
              reasons |-> {"stdout"}]
        ELSE [asserted |-> {"exit-code", "stdout"}, outcome |-> "pass", reasons |-> {}]

\* stdout.expected is read only when the first assertion did not raise.
ReadsOutFile(rc, exitFile) ==
    LET expected == ExpectedExitCode(exitFile) IN expected.ok /\ rc = expected.value

\* runTest after build: the program is run and judged.
Execute ==
    /\ pc = "execute"
    /\ \E from \in ReadFile(disk, tempdir, "program"),
          rc \in inputs.rcs, out \in inputs.outs, exitFile \in inputs.exitFiles :
          /\ Known(env[from].rc, rc)
          /\ Known(env[from].out, out)
          /\ Known(env[Test].exitFile, exitFile)
          /\ \E outFile \in IF ReadsOutFile(rc, exitFile) THEN inputs.outFiles ELSE {Absent} :
                /\ ReadsOutFile(rc, exitFile) => Known(env[Test].outFile, outFile)
                /\ env' = [env EXCEPT ![from].rc = <<rc>>,
                                      ![from].out = <<out>>,
                                      ![Test].exitFile = <<exitFile>>,
                                      ![Test].outFile =
                                          IF ReadsOutFile(rc, exitFile) THEN <<outFile>> ELSE @]
                /\ LET j == Judge(rc, out, exitFile, outFile)
                   IN  cur' = [log |-> Append(cur.log, "program"),
                               asserted |-> j.asserted,
                               reasons |-> j.reasons,
                               attached |-> cur.attached,
                               outcome |-> j.outcome]
    /\ pc' = "teardown"
    /\ UNCHANGED <<envVars, disk, run, stack, tests, test_suites, si, ti, success,
                   tests_result, result, tempdir, started, attempts, toolUsed, exitStatus,
                   prev>>

\* tearDown: the scratch directory is removed; unittest then records the
\* outcome of the test and the suite goes on with its next test.
TearDown ==
    /\ pc = "teardown"
    /\ disk' = RemoveDir(disk, tempdir)
    /\ result' = [result EXCEPT ![Test] = cur.outcome]
    /\ tests_result' = AddOutcome(tests_result, cur.outcome)
    /\ env' = Forget(env, Test)
    /\ cur' = NoTest
    /\ tempdir' = NoDir
    /\ ti' = NextTest(ti, cur.outcome)
    /\ pc' = "test"
    /\ UNCHANGED <<envVars, run, stack, tests, test_suites, si, success, started,
                   attempts, toolUsed, exitStatus, prev>>

\* runner.run(suite) returns: success &= tests_result.wasSuccessful()
SuiteEnd ==
    /\ pc = "test"
    /\ ti > Len(Suite.tests)
    /\ success' = AndAssign(success, WasSuccessful(tests_result))
    /\ si' = si + 1
    /\ pc' = "suite"
    /\ UNCHANGED <<envVars, env, disk, run, stack, tests, test_suites, ti, tests_result,
                   result, tempdir, cur, started, attempts, toolUsed, exitStatus, prev>>

\* sys.exit(0) or sys.exit(1)
ExitCode(ok) == IF ok THEN 0 ELSE 1

Exit ==
    /\ pc = "suite"
    /\ si > Len(test_suites)
    /\ exitStatus' = <<ExitCode(success)>>
    /\ pc' = "done"
    /\ UNCHANGED <<envVars, env, disk, run, stack, tests, test_suites, si, ti, success,
                   tests_result, result, tempdir, cur, started, attempts, toolUsed, prev>>

\* The harness is started again: a new process, on the disk and the fixtures
\* the previous run left behind.
Rerun ==
    /\ pc = "done"
    /\ run < lastRun
    /\ run' = run + 1
    /\ prev' = <<[result |-> result, exitStatus |-> exitStatus]>>
    /\ pc' = "walk"
    /\ stack' = << <<>> >>
    /\ tests' = <<>>
    /\ test_suites' = <<>>
    /\ si' = 0
    /\ ti' = 0
    /\ success' = InitialSuccess
    /\ tests_result' = NoResult
    /\ result' = [p \in tree |-> "none"]
    /\ tempdir' = NoDir
    /\ cur' = NoTest
    /\ started' = {}
    /\ attempts' = [p \in tree |-> 0]
    /\ toolUsed' = FALSE
    /\ exitStatus' = <<>>
    /\ UNCHANGED <<envVars, env, disk>>

Next ==
    \/ WalkStep
    \/ DiscoverReturn
    \/ SuiteBegin
    \/ SetUpOk
    \/ SetUpFail
    \/ Translate
    \/ Codegen
    \/ Link
    \/ Execute
    \/ TearDown
    \/ SuiteEnd
    \/ Exit

Spec == Init /\ [][Next]_vars

\* Two runs in succession over the same fixtures and tools.
\* One run in which every step that can be taken is eventually taken: the
\* harness is one sequential process, its own code always goes on to its next
\* statement, and every external process it waits for eventually returns.
SpecLive == Init /\ [][Next]_vars /\ WF_vars(Next)

InitTwice ==
    /\ tree \in Trees(TwiceNames)
    /\ inputs = SmallInputs
    /\ lastRun = MaxRuns
    /\ env = [p \in tree |-> Unknown]
    /\ disk = EmptyDisk
    /\ Fresh

NextTwice == Next \/ Rerun

SpecTwice == InitTwice /\ [][NextTwice]_vars

\* Discovery alone, over trees with every kind of directory name.
InitDiscover ==
    /\ tree \in Trees(DirNames)
    /\ inputs = FullInputs
    /\ lastRun = 1
    /\ env = [p \in tree |-> Unknown]
    /\ disk = EmptyDisk
    /\ Fresh

NextDiscover == WalkStep \/ DiscoverReturn

SpecDiscover == InitDiscover /\ [][NextDiscover]_vars

TypeOK ==
    /\ pc \in {"walk", "suite", "test", "translate", "codegen", "link", "execute",
               "teardown", "done"}
    /\ tempdir \in ScratchNames \cup {NoDir}
    /\ disk.dirs \subseteq ScratchNames

\* ------------------------------------------------------------------ claims
\* The tests of all suites, in the order the runner runs them.
RECURSIVE Flatten(_)
Flatten(suites) == IF suites = <<>> THEN <<>> ELSE Head(suites).tests \o Flatten(Tail(suites))

RunOrder == Flatten(test_suites)

Discovered == {RunOrder[i] : i \in 1..Len(RunOrder)}

\* f is run before g.
Before(f, g) ==
    \E i, j \in 1..Len(RunOrder) : i < j /\ RunOrder[i] = f /\ RunOrder[j] = g

\* No test is between its setUp and the end of its tearDown.
BetweenTests == pc \in {"test", "suite", "done"}

Ended(f) == result[f] # "none"

\* The scratch directory of f was created.
HadScratch(f) == result[f] \in {"pass", "fail", "error", "build-error"}

\* C1: once the run of a fixture whose scratch directory was created has
\* ended, however it ended, that scratch directory and everything in it is
\* gone: between two tests, and at the end of the run, the disk holds no
\* scratch directory.
C1_ScratchRemoved ==
    (BetweenTests /\ \E f \in tree : HadScratch(f)) =>
        (disk.dirs = {} /\ disk.files = {})

\* A pass, a build failure and an assertion failure have ended, and the disk
\* is clean.
C1_Witness ==
    /\ BetweenTests
    /\ \E f, g, h \in tree :
          result[f] = "pass" /\ result[g] = "build-error" /\ result[h] = "fail"
    /\ disk = EmptyDisk

\* C2: a build stage that exits non-zero ends that test alone, as an error
\* of that test: the run is still going on when the test is torn down, and
\* at the end of the run every fixture that comes after it, in its suite or
\* in a later one, has been set up once and, unless its own setUp failed,
\* handed to the compiler.
C2_BuildFailureIsLocal ==
    /\ (pc = "teardown" /\ cur.reasons \cap {"translate", "codegen", "link"} # {}) =>
          (cur.outcome = "build-error" /\ exitStatus = <<>> /\ result[Test] = "none")
    /\ pc = "done" =>
          \A f, g \in Discovered :
             (result[f] = "build-error" /\ Before(f, g)) =>
                /\ attempts[g] = 1
                /\ Ended(g)
                /\ result[g] # "setup-error" => g \in started

\* The first fixture of a suite failed to build, a later one of the same
\* suite and one of a later suite passed.
C2_Witness ==
    /\ pc = "done"
    /\ Len(test_suites) >= 2
    /\ Len(test_suites[1].tests) >= 2
    /\ result[test_suites[1].tests[1]] = "build-error"
    /\ result[test_suites[1].tests[2]] = "pass"
    /\ result[test_suites[2].tests[1]] = "pass"

\* C3: the exit status is 0 when every fixture of every suite passed and 1
\* when at least one did not, wherever that one is.
C3_ExitStatus ==
    pc = "done" =>
        /\ exitStatus \in {<<0>>, <<1>>}
        /\ exitStatus = <<0>> <=> \A f \in Discovered : result[f] = "pass"

\* The first fixture of the first suite did not pass, everything after it
\* did, in two suites, and the exit status is 1.
C3_Witness ==
    /\ pc = "done"
    /\ exitStatus = <<1>>
    /\ Len(test_suites) >= 2
    /\ result[RunOrder[1]] = "setup-error"
    /\ \A i \in 2..Len(RunOrder) : result[RunOrder[i]] = "pass"

\* What a fact of the environment can be: what was observed, or, when the
\* harness has not looked at it, anything of its domain.
Candidates(fact, domain) == IF fact = <<>> THEN domain ELSE {fact[1]}

\* All three build stages of f exited 0.
BuiltOk(f) == env[f].cc = <<0>> /\ env[f].llc = <<0>> /\ env[f].clang = <<0>>

\* The program of the test being run was executed.
Executed == cur.log # <<>> /\ cur.log[Len(cur.log)] = "program"

\* The expected exit code of the claims: the integer in the file, 0 without
\* a file (ok is FALSE when the file holds no integer).
ClaimedExitCode(file) ==
    IF file.exists THEN IntParse(file.data) ELSE [ok |-> TRUE, value |-> 0]

\* The raw content of a file, empty without a file.
RawContent(file) == IF file.exists THEN file.data ELSE <<>>

\* C4 as stated: a test passes exactly when its build succeeded, the exit
\* code is the expected one and the bytes the program wrote are the bytes of
\* stdout.expected.
C4_PassIffRawMatch ==
    pc = "teardown" =>
        \A rc \in Candidates(env[Test].rc, inputs.rcs),
           out \in Candidates(env[Test].out, inputs.outs),
           exitFile \in Candidates(env[Test].exitFile, inputs.exitFiles),
           outFile \in Candidates(env[Test].outFile, inputs.outFiles) :
            cur.outcome = "pass" <=>
                /\ BuiltOk(Test)
                /\ ClaimedExitCode(exitFile).ok
                /\ rc = ClaimedExitCode(exitFile).value
                /\ out = RawContent(outFile)

\* C4 amended: a test passes exactly when its build succeeded, the exit code
\* is the expected one and the program's output equals the content of
\* stdout.expected after both were read as text, "\r\n" and "\r" becoming
\* "\n"; nothing is trimmed.
C4_PassIffTextMatch ==
    pc = "teardown" =>
        \A rc \in Candidates(env[Test].rc, inputs.rcs),
           out \in Candidates(env[Test].out, inputs.outs),
           exitFile \in Candidates(env[Test].exitFile, inputs.exitFiles),
           outFile \in Candidates(env[Test].outFile, inputs.outFiles) :
            cur.outcome = "pass" <=>
                /\ BuiltOk(Test)
                /\ ClaimedExitCode(exitFile).ok
                /\ rc = ClaimedExitCode(exitFile).value
                /\ UniversalNewlines(out) = UniversalNewlines(RawContent(outFile))

\* A program that wrote "42\r\n" passes against a stdout.expected of "42\n".
C4_Witness ==
    /\ pc = "teardown"
    /\ cur.outcome = "pass"
    /\ env[Test].out = << <<"4", "2", CR, LF>> >>
    /\ env[Test].outFile = <<File(<<"4", "2", LF>>)>>
    /\ env[Test].exitFile = <<File(<<"1", LF>>)>>

\* C5 as stated: once the program was executed both assertions are
\* evaluated, and each mismatch is reported.
C5_BothEvaluated ==
    (pc = "teardown" /\ Executed) =>
        /\ cur.asserted = {"exit-code", "stdout"}
        /\ \A exitFile \in Candidates(env[Test].exitFile, inputs.exitFiles),
              outFile \in Candidates(env[Test].outFile, inputs.outFiles) :
              /\ env[Test].rc # <<ClaimedExitCode(exitFile).value>> =>
                    "exit-code" \in cur.reasons
              /\ UniversalNewlines(env[Test].out[1]) # UniversalNewlines(RawContent(outFile)) =>
                    "stdout" \in cur.reasons

\* C5 amended: the exit-code assertion is evaluated first, whenever
\* exit.expected holds an integer or is absent; the stdout assertion is
\* evaluated only when the exit code is the expected one.  Each assertion
\* that is evaluated and fails is reported as its own reason, so a program
\* wrong in both is reported for its exit code alone.
C5_FirstMismatchOnly ==
    (pc = "teardown" /\ Executed) =>
        \A exitFile \in Candidates(env[Test].exitFile, inputs.exitFiles),
           outFile \in Candidates(env[Test].outFile, inputs.outFiles) :
            LET expected == ClaimedExitCode(exitFile)
                rcOk == expected.ok /\ env[Test].rc = <<expected.value>>
                outOk == UniversalNewlines(env[Test].out[1])
                            = UniversalNewlines(RawContent(outFile))
            IN  /\ "exit-code" \in cur.asserted <=> expected.ok
                /\ "stdout" \in cur.asserted <=> rcOk
                /\ "exit-code" \in cur.reasons <=> (expected.ok /\ ~rcOk)
                /\ "stdout" \in cur.reasons <=> (rcOk /\ ~outOk)

\* The program exited with 1 where 0 was expected and wrote output where
\* none was expected: the exit code alone is reported.
C5_Witness ==
    /\ pc = "teardown"
    /\ Executed
    /\ env[Test].rc = <<1>>
    /\ env[Test].exitFile = <<Absent>>
    /\ env[Test].out = << <<"4", "2">> >>
    /\ cur.reasons = {"exit-code"}
    /\ cur.asserted = {"exit-code"}

\* The places of directory p among the tests of the suites.
PlacesOf(p) ==
    {ij \in (1..Len(test_suites)) \X (1..MaxDirs) :
        ij[2] <= Len(test_suites[ij[1]].tests) /\ test_suites[ij[1]].tests[ij[2]] = p}

\* The name the claims give the suite of the fixtures of directory parent.
ClaimedSuiteName(parent) ==
    IF parent = <<>> THEN << <<"r", "o", "o", "t">> >> ELSE parent

\* C6: when discovery has returned, every directory of the tree with a
\* qualifying name is a test of exactly one suite, at exactly one place, and
\* that suite is the one named for its parent directory; the suites hold
\* nothing else, none is empty, and no two suites are for the same parent.
C6_DiscoveryExact ==
    pc # "walk" =>
        /\ \A p \in Fixtures :
              /\ Cardinality(PlacesOf(p)) = 1
              /\ \A ij \in PlacesOf(p) :
                    test_suites[ij[1]].name = ClaimedSuiteName(Parent(p))
        /\ \A i \in 1..Len(test_suites) :
              /\ test_suites[i].tests # <<>>
              /\ \A j \in 1..Len(test_suites[i].tests) : test_suites[i].tests[j] \in Fixtures
              /\ \A k \in 1..Len(test_suites) :
                    Parent(test_suites[i].tests[1]) = Parent(test_suites[k].tests[1]) => i = k
        /\ Len(test_suites) = Cardinality({Parent(p) : p \in Fixtures})

\* Discovery returned two suites, the one of the script directory with two
\* fixtures, the other for a directory that is a fixture itself.
C6_Witness ==
    /\ pc = "suite"
    /\ Len(test_suites) = 2
    /\ \E i \in 1..2 :
          /\ test_suites[i].name = << <<"r", "o", "o", "t">> >>
          /\ Len(test_suites[i].tests) = 2
    /\ \E i \in 1..2 : test_suites[i].name \in Fixtures

\* The order of the characters of directory names.
CharOrder ==
    <<"-", "0", "1", "2", "3", "4", "5", "6", "7", "8", "9", "a", "c", "o", "r", "s", "t",
      "x", "sup2">>

CharRank(c) == CHOOSE n \in 1..Len(CharOrder) : CharOrder[n] = c

\* a comes before b, or is b, in lexicographic order.
RECURSIVE LexLeq(_, _)
LexLeq(a, b) ==
    IF a = <<>> THEN TRUE
    ELSE IF b = <<>> THEN FALSE
    ELSE IF Head(a) # Head(b) THEN CharRank(Head(a)) < CharRank(Head(b))
    ELSE LexLeq(Tail(a), Tail(b))

\* id(): the name of the test directory.
TestId(p) == p[Len(p)]

\* C7: within every suite the tests are in lexicographic order of their
\* identifiers.
C7_SortedWithinSuite ==
    pc # "walk" =>
        \A i \in 1..Len(test_suites) :
            \A j, k \in 1..Len(test_suites[i].tests) :
                j < k => LexLeq(TestId(test_suites[i].tests[j]), TestId(test_suites[i].tests[k]))

\* C8 as stated: after a fixture whose setUp failed no later fixture is
\* handed to the compiler.
C8_SetupErrorAborts ==
    \A f, g \in Discovered :
        (result[f] = "setup-error" /\ Before(f, g)) => g \notin started

\* C8 amended: a failing mktemp is the error of that one fixture, for which
\* no tool is run; the fixtures after it are still set up and run, and the
\* run ends with exit status 1.
C8_SetupErrorIsLocal ==
    /\ \A f \in Discovered : result[f] = "setup-error" => f \notin started
    /\ pc = "done" =>
          \A f \in Discovered :
             result[f] = "setup-error" =>
                /\ exitStatus = <<1>>
                /\ \A g \in Discovered : Before(f, g) => (attempts[g] = 1 /\ Ended(g))

\* The setUp of the first fixture failed, the second fixture was built and
\* passed, and the run ended with status 1.
C8_Witness ==
    /\ pc = "done"
    /\ Len(RunOrder) >= 2
    /\ result[RunOrder[1]] = "setup-error"
    /\ RunOrder[2] \in started
    /\ result[RunOrder[2]] = "pass"
    /\ exitStatus = <<1>>

\* C9: in a tree without fixture directories discovery returns no suite, no
\* external tool is ever invoked, no test is run, and the run ends with exit
\* status 0.
C9_EmptyTree ==
    Fixtures = {} =>
        /\ pc \in {"walk", "suite", "done"}
        /\ pc # "walk" => test_suites = <<>>
        /\ ~toolUsed
        /\ disk = EmptyDisk
        /\ pc = "done" => exitStatus = <<0>>

\* A tree with directories, none of them a fixture, was walked and the run
\* has ended with status 0.
C9_Witness ==
    /\ Fixtures = {}
    /\ tree # {}
    /\ pc = "done"
    /\ exitStatus = <<0>>

\* C10: in a run that follows another one, every fixture ends as it did in
\* the run before, the exit status is the one of the run before, and the run
\* starts on a disk without scratch directories.
C10_Idempotent ==
    run > 1 =>
        /\ \A f \in tree : Ended(f) => result[f] = prev[1].result[f]
        /\ pc = "walk" => disk = EmptyDisk
        /\ pc = "done" => (result = prev[1].result /\ exitStatus = prev[1].exitStatus)

\* The second run has ended, with a fixture that did not build, one whose
\* exit code was wrong and one that passed.
C10_Witness ==
    /\ run = 2
    /\ pc = "done"
    /\ \E f, g, h \in tree :
          result[f] = "build-error" /\ result[g] = "fail" /\ result[h] = "pass"

\* The external processes of one test whose every stage succeeds, in order.
FullLog == <<"mktemp", "cc", "llc", "clang", "program">>

IsPrefix(a, b) == Len(a) <= Len(b) /\ a = SubSeq(b, 1, Len(a))

\* The tool invoked last for the test being run.
LastTool == cur.log[Len(cur.log)]

\* C11: the processes of one test are invoked in the order translate,
\* codegen, link, execute, none of them twice; a stage is invoked only when
\* the stage before it exited 0, and a stage that exits non-zero is the last
\* process of the test: the test is then on its way to tearDown.
C11_StagesInOrder ==
    cur.log # <<>> =>
        /\ IsPrefix(cur.log, FullLog)
        /\ Len(cur.log) >= 3 => env[Test].cc = <<0>>
        /\ Len(cur.log) >= 4 => env[Test].llc = <<0>>
        /\ Len(cur.log) >= 5 => env[Test].clang = <<0>>
        /\ \A tool \in {"cc", "llc", "clang"} :
              (LastTool = tool /\ env[Test][tool] # <<0>>) =>
                  (pc = "teardown" /\ cur.outcome = "build-error")

\* The code generator exited non-zero after a successful translation: the
\* linker and the program were not invoked.
C11_Witness ==
    /\ pc = "teardown"
    /\ cur.log = <<"mktemp", "cc", "llc">>
    /\ env[Test].cc = <<0>>
    /\ env[Test].llc = <<1>>
    /\ cur.outcome = "build-error"

\* C12: whichever build stage exits non-zero, the output of the failing tool
\* is attached to the error recorded for the test.
C12_OutputAttached ==
    (pc = "teardown" /\ cur.outcome = "build-error") => cur.attached = {LastTool}

\* What the build does: the output of the compiler is attached when the
\* translation fails, and nothing is attached when llc or clang fails.
C12_OnlyCompilerOutputAttached ==
    (pc = "teardown" /\ cur.outcome = "build-error") =>
        cur.attached = (IF LastTool = "cc" THEN {"cc"} ELSE {})

\* The first three characters of name exist and are decimal digits.
ThreeLeadingDigits(name) ==
    Len(name) >= 3 /\ \A i \in 1..3 : name[i] \in Digits

\* C13: when discovery has returned, a directory is a test of some suite if
\* and only if the first three characters of its name are decimal digits.
C13_ThreeDecimalDigits ==
    pc # "walk" =>
        \A p \in tree : PlacesOf(p) # {} <=> ThreeLeadingDigits(p[Len(p)])

\* What discovery does: a directory is a test exactly when the characters of
\* dir[0:3], which are fewer than three for a short name, are all numeric
\* in the sense of str.isnumeric().
C13_NumericSlice ==
    pc # "walk" =>
        \A p \in tree : PlacesOf(p) # {} <=> IsNumeric(Slice3(p[Len(p)]))

\* The parent directories of the tests found, in the order in which
\* discovery first saw each of them.
Roots(ts) == [i \in 1..Len(ts) |-> ts[i].root]

\* The tests of suite i.
TestsOf(i) == {test_suites[i].tests[j] : j \in 1..Len(test_suites[i].tests)}

\* Suite i is the suite of the i-th parent directory seen; the suites before
\* the current one have run every test of theirs once, the suites after it
\* have run none.
SuitesOneAtATime ==
    pc # "walk" =>
        /\ Len(test_suites) = Len(tests)
        /\ \A i \in 1..Len(test_suites) :
              /\ test_suites[i].name = ClaimedSuiteName(tests[i].root)
              /\ \A j \in 1..Len(test_suites) :
                    i # j => test_suites[i].name # test_suites[j].name
              /\ i < si => \A f \in TestsOf(i) : attempts[f] = 1 /\ Ended(f)
              /\ i > si => \A f \in TestsOf(i) : attempts[f] = 0 /\ ~Ended(f)
        /\ pc = "done" => si = Len(test_suites) + 1

\* A step keeps the order of the parent directories seen so far, moves to
\* the next suite or stays in the current one, and never sets a false flag.
SuiteStep ==
    /\ IsPrefix(Roots(tests), Roots(tests'))
    /\ si' \in {si, si + 1}
    /\ ~success => ~success'

\* C14: the suites are run one at a time, in the order in which discovery
\* first saw their parent directories, each once and whatever the results of
\* the suites before; the flag of the run, once false, stays false.
C14_SuitesInOrder == []SuitesOneAtATime /\ [][SuiteStep]_vars

\* A test of the first suite failed, the second suite was run and its test
\* passed, and the flag stayed false to the end.
C14_Witness ==
    /\ pc = "done"
    /\ Len(test_suites) = 2
    /\ result[test_suites[1].tests[1]] = "fail"
    /\ \A f \in TestsOf(2) : result[f] = "pass"
    /\ ~success

\* A test is between the end of its setUp and the end of its tearDown.
InTest == pc \in {"translate", "codegen", "link", "execute", "teardown"}

\* The file a build stage or the execution is about to read.
InputOf(at) ==
    IF at = "codegen" THEN "program.ll"
    ELSE IF at = "link" THEN "program.o"
    ELSE "program"

\* C15: at most one scratch directory exists, and only while a test is
\* running, whose directory it is; the directory is empty when the build
\* starts, every file in it was written for the test being run, and what a
\* stage or the execution reads is the file the run of this test wrote.
C15_ScratchIsOwn ==
    /\ Cardinality(disk.dirs) <= 1
    /\ disk.dirs = (IF InTest THEN {tempdir} ELSE {})
    /\ ~InTest => disk.files = {}
    /\ pc = "translate" => disk.files = {}
    /\ \A a \in disk.files : a.dir = tempdir /\ a.from = Test
    /\ pc \in {"codegen", "link", "execute"} =>
          ReadFile(disk, tempdir, InputOf(pc)) = {Test}

\* The program of a test is about to be executed from a directory holding
\* the three artifacts of its build, after another test had a directory.
C15_Witness ==
    /\ pc = "execute"
    /\ Cardinality(disk.files) = 3
    /\ \E g \in Discovered : g # Test /\ HadScratch(g)

\* While a test has invoked anything, its scratch directory exists and was
\* created by a mktemp that exited 0, before every other invocation; no tool
\* is invoked outside a test; a test whose setUp failed never started a build.
InsideScratch ==
    /\ InTest => /\ tempdir \in disk.dirs
                 /\ Head(cur.log) = "mktemp"
                 /\ env[Test].mktemp = <<0>>
    /\ ~InTest => cur.log = <<>> /\ tempdir = NoDir
    /\ \A f \in tree : result[f] = "setup-error" => f \notin started

\* The step that records a failed setUp invokes nothing else and deletes
\* nothing, and counts the test among the errors of its suite; the step that
\* deletes a directory is the last of its test.
ScratchStep ==
    /\ \A f \in tree :
          (result[f] = "none" /\ result'[f] = "setup-error") =>
              /\ pc = "test" /\ pc' = "test"
              /\ cur = NoTest /\ cur' = NoTest
              /\ disk.dirs = {} /\ disk' = disk
              /\ tests_result'.errors = tests_result.errors + 1
              /\ f \notin started'
    /\ disk'.dirs # disk.dirs =>
          \/ pc = "test" /\ pc' = "translate" /\ disk'.dirs = {tempdir'}
          \/ pc = "teardown" /\ pc' = "test" /\ cur' = NoTest

\* C16: the compiler, llc, clang and the program of a test are invoked only
\* between the creation of its scratch directory and the deletion of it;
\* when the creation fails nothing is built, executed or deleted for the
\* test, and the test is recorded as an error.
C16_InvocationsInsideScratch == []InsideScratch /\ [][ScratchStep]_vars

\* The setUp of one test failed and the program of another is about to be
\* executed in its scratch directory.
C16_Witness ==
    /\ pc = "execute"
    /\ tempdir \in disk.dirs
    /\ \E f \in Discovered : result[f] = "setup-error" /\ f \notin started

\* The run has ended with an exit status of 0 or 1 and every test directory
\* of the tree has been run once.
Terminated ==
    /\ pc = "done"
    /\ exitStatus \in {<<0>>, <<1>>}
    /\ \A f \in Fixtures : f \in Discovered /\ attempts[f] = 1 /\ Ended(f)

\* No test is run twice, and nothing but a test directory is run.
AtMostOnce ==
    \A f \in tree : attempts[f] <= (IF f \in Fixtures THEN 1 ELSE 0)

\* C17: when every external process returns, the run over a finite tree
\* ends with exit status 0 or 1 after running each discovered test once,
\* and at no time has a test been run twice.
C17_Terminates == <>Terminated /\ []AtMostOnce

\* The run of a tree of three tests has ended, one of them stopped in setUp,
\* one in the build and one after its program ran, each run once.
C17_Witness ==
    /\ Terminated
    /\ Cardinality(Fixtures) = 3
    /\ \E f, g, h \in Fixtures :
          /\ result[f] = "setup-error"
          /\ result[g] = "build-error"
          /\ result[h] \in {"pass", "fail", "error"}

\* An expectation file of f has been read.
ExpectationRead(f) == env[f].exitFile # <<>> \/ env[f].outFile # <<>>

\* C18: an expectation file of a test is read only once its program was
\* built and executed; an exit.expected that holds no integer makes the test
\* an error, its scratch directory is removed all the same, every test of
\* the tree is still run, and the run ends with exit status 1.
C18_UnparsableExitFile ==
    /\ \A f \in tree :
          ExpectationRead(f) =>
              (pc = "teardown" /\ f = Test /\ Executed /\ BuiltOk(f))
    /\ (pc = "teardown" /\ env[Test].exitFile # <<>>
           /\ ~ClaimedExitCode(env[Test].exitFile[1]).ok) =>
          (cur.outcome = "error" /\ cur.asserted = {})
    /\ BetweenTests =>
          \A f \in tree : result[f] = "error" => disk = EmptyDisk
    /\ pc = "done" =>
          \A f \in Discovered :
             result[f] = "error" =>
                /\ exitStatus = <<1>>
                /\ \A g \in Discovered : attempts[g] = 1 /\ Ended(g)

\* The exit.expected of the first test held no integer; the test after it
\* passed, nothing is left on the disk, and the exit status is 1.
C18_Witness ==
    /\ pc = "done"
    /\ Len(RunOrder) >= 2
    /\ result[RunOrder[1]] = "error"
    /\ result[RunOrder[2]] = "pass"
    /\ disk = EmptyDisk
    /\ exitStatus = <<1>>

====
